---- MODULE Spec2Model ----
(***************************************************************************)
(* Model of honeypot_checker: HoneypotChecker.analyze_address and the      *)
(* analyses it combines (EtherscanAPI, ContractsAnalyzer, WalletAnalyzer). *)
(*                                                                         *)
(* Python values are modelled as follows.                                  *)
(*   - an address string is a record [id, form]; two strings are equal     *)
(*     exactly when both fields agree, str.lower() rewrites form to        *)
(*     "lower";                                                            *)
(*   - a float that is a quotient of two integers is the pair [num, den];  *)
(*     den = 0 stands for the ZeroDivisionError the division raises;       *)
(*   - a raised exception is the name of its class;                        *)
(*   - a dict is a function from its keys.                                 *)
(***************************************************************************)
EXTENDS Integers, Sequences, FiniteSets, TLC

VARIABLES
    pc,                 \* position of the request in analyze_address
    requested,          \* an HTTP request has been issued (requests.get was called)
    address,            \* the token address handed to the entry point
    abi_lookup,         \* what the ABI lookup of is_contract_verified saw
    is_verified,        \* result of is_contract_verified
    abi,                \* result of get_contract_abi
    action,             \* action argument of the running infer_tax call
    tax_resp,           \* endpoint response the running infer_tax call received
    tax_out,            \* outcome of the last infer_tax call
    taxes,              \* buy_tax, sell_tax, transfer_tax locals of analyze_contract
    contract_analysis,  \* result of analyze_contract
    page,               \* page counter of get_token_holders
    holder_data,        \* holder mapping of get_token_holders, before pruning
    pending,            \* records of the current page the for loop has yet to fold
    fetch_failed,       \* a holder page fetch raised RequestException
    report,             \* locals of analyze_holders after get_token_holders
    wallet_analysis,    \* result of analyze_holders
    result              \* result of analyze_address

vars == <<pc, requested, address, abi_lookup, is_verified, abi, action, tax_resp, tax_out,
          taxes, contract_analysis, page, holder_data, pending, fetch_failed,
          report, wallet_analysis, result>>

-----------------------------------------------------------------------------
(* Bounds of the model *)

MaxPages == 3
MaxPageLen == 2
MaxTaxLen == 2
MaxValue == 2
MaxGasPrice == 1
MaxGasUsed == 2

-----------------------------------------------------------------------------
(* Addresses *)

Addr(i, f) == [id |-> i, form |-> f]

Lower(a) == [a EXCEPT !.form = "lower"]

USDT == Addr("usdt", "checksum")

USDC == Addr("usdc", "checksum")

Whitelist == {USDT, USDC}

validate_address(a) == a.form \in {"lower", "upper", "checksum"}

-----------------------------------------------------------------------------
(* Exceptions *)

IsRequestException(e) ==
    e \in {"ConnectionError", "Timeout", "ProxyError", "HTTPError",
           "RequestsJSONDecodeError"}

IsProxyError(e) == e = "ProxyError"

IsValueError(e) == e \in {"ValueError", "JSONDecodeError", "RequestsJSONDecodeError"}

IsKeyError(e) == e = "KeyError"

\* response.json() on an undecodable body: requests.exceptions.JSONDecodeError
\* (a RequestException and a ValueError) or the json module's own
\* JSONDecodeError (a ValueError only), depending on the installed requests.
JsonExcs == {"RequestsJSONDecodeError", "JSONDecodeError"}

-----------------------------------------------------------------------------
(* Floats as quotients *)

Rat(n, d) == [num |-> n, den |-> d]

Zero == Rat(0, 1)

Div(n, d) == IF d = 0 THEN Rat(0, 0) ELSE Rat(n, d)

RatAdd(a, b) == Rat(a.num * b.den + b.num * a.den, a.den * b.den)

\* a > n/d for a quotient a with positive denominator
RatGt(a, n, d) == a.num * d > n * a.den

\* round(n/d) to the nearest integer, ties to even, as Python's round
RoundHalfEven(n, d) ==
    LET q == n \div d
        r == n % d
    IN  IF 2 * r < d THEN q
        ELSE IF 2 * r > d THEN q + 1
        ELSE IF q % 2 = 0 THEN q ELSE q + 1

-----------------------------------------------------------------------------
(* Transfer records and endpoint responses *)

Tx(f, t, v, gp, gu, ca) ==
    [from |-> f, to |-> t, value |-> v, gasPrice |-> gp, gasUsed |-> gu,
     contractAddress |-> ca, missing |-> {}, junk |-> {}]

\* tx[f] raises KeyError when the record lacks the field
StrExc(tx, f) == IF f \in tx.missing THEN "KeyError" ELSE "none"

\* int(tx[f]) raises KeyError when the record lacks the field and ValueError
\* when the field is not a decimal numeral
IntExc(tx, f) ==
    IF f \in tx.missing THEN "KeyError"
    ELSE IF f \in tx.junk THEN "ValueError"
    ELSE "none"

\* requests.get raised exc
RespRaise(exc) ==
    [raise |-> exc, status_code |-> 0, decode |-> "none", status |-> "absent",
     has_result |-> FALSE, result |-> <<>>]

\* a response with a non-200 status code
RespHttp(code) ==
    [raise |-> "none", status_code |-> code, decode |-> "none", status |-> "absent",
     has_result |-> FALSE, result |-> <<>>]

\* a 200 response whose body response.json() cannot decode
RespUndecodable(exc) ==
    [raise |-> "none", status_code |-> 200, decode |-> exc, status |-> "absent",
     has_result |-> FALSE, result |-> <<>>]

\* a 200 response with a JSON object body
RespJson(st, has, txs) ==
    [raise |-> "none", status_code |-> 200, decode |-> "none", status |-> st,
     has_result |-> has, result |-> txs]

SeqsUpTo(S, n) == UNION {[1..k -> S] : k \in 0..n}

\* the empty dict
EmptyMap == [x \in {} |-> 0]

-----------------------------------------------------------------------------
(* ContractsAnalyzer.infer_tax *)

\* One iteration of the loop over transactions: acc is [exc, total, count],
\* the exception raised so far and the locals total_tax and tax_count.
TaxLoopStep(acc, tx, contract_address, act) ==
    IF acc.exc # "none" THEN acc
    ELSE IF IntExc(tx, "gasPrice") # "none" THEN [acc EXCEPT !.exc = IntExc(tx, "gasPrice")]
    ELSE IF IntExc(tx, "gasUsed") # "none" THEN [acc EXCEPT !.exc = IntExc(tx, "gasUsed")]
    ELSE IF IntExc(tx, "value") # "none" THEN [acc EXCEPT !.exc = IntExc(tx, "value")]
    ELSE IF tx.value <= 0 THEN acc
    ELSE LET tax_value == Rat(tx.gasPrice * tx.gasUsed, tx.value)
             counted == [acc EXCEPT !.total = RatAdd(acc.total, tax_value),
                                    !.count = acc.count + 1]
         IN  IF RatGt(tax_value, 1, 1) THEN acc
             ELSE IF act = "buy" THEN
                  IF StrExc(tx, "to") # "none" THEN [acc EXCEPT !.exc = "KeyError"]
                  ELSE IF tx.to # contract_address THEN counted ELSE acc
             ELSE IF act = "sell" THEN
                  IF StrExc(tx, "from") # "none" THEN [acc EXCEPT !.exc = "KeyError"]
                  ELSE IF tx.from # contract_address THEN counted ELSE acc
             ELSE IF act = "transfer" THEN
                  IF StrExc(tx, "from") # "none" THEN [acc EXCEPT !.exc = "KeyError"]
                  ELSE IF tx.from = contract_address THEN acc
                  ELSE IF StrExc(tx, "to") # "none" THEN [acc EXCEPT !.exc = "KeyError"]
                  ELSE IF tx.to # contract_address THEN counted ELSE acc
             ELSE acc

RECURSIVE TaxLoop(_, _, _, _)
TaxLoop(acc, txs, contract_address, act) ==
    IF txs = <<>> THEN acc
    ELSE TaxLoop(TaxLoopStep(acc, Head(txs), contract_address, act),
                 Tail(txs), contract_address, act)

\* What an infer_tax call produces: a float (hundredths of a percent), a str,
\* or an exception leaving the call.  tax_count is the loop's final counter.
TaxFloat(h, total, count) ==
    [kind |-> "float", hundredths |-> h, text |-> "", exc |-> "none",
     total_tax |-> total, tax_count |-> count]

TaxStr(t) ==
    [kind |-> "str", hundredths |-> 0, text |-> t, exc |-> "none",
     total_tax |-> Zero, tax_count |-> 0]

TaxRaise(e) ==
    [kind |-> "raise", hundredths |-> 0, text |-> "", exc |-> e,
     total_tax |-> Zero, tax_count |-> 0]

\* the body of the try block, before the except clause is applied
InferTaxBody(resp, contract_address, act) ==
    IF resp.raise # "none" THEN TaxRaise(resp.raise)
    ELSE IF resp.status_code # 200 THEN TaxStr("HTTP error")
    ELSE IF resp.decode # "none" THEN TaxRaise(resp.decode)
    ELSE IF resp.status = "absent" THEN TaxRaise("KeyError")
    ELSE IF resp.status # "1" THEN TaxStr("No relevant transactions found")
    ELSE IF ~resp.has_result THEN TaxRaise("KeyError")
    ELSE LET acc == TaxLoop([exc |-> "none", total |-> Zero, count |-> 0],
                            resp.result, contract_address, act)
         IN  IF acc.exc # "none" THEN TaxRaise(acc.exc)
             ELSE IF acc.count > 0
                  THEN TaxFloat(RoundHalfEven(acc.total.num * 10000,
                                              acc.total.den * acc.count),
                                acc.total, acc.count)
                  ELSE TaxFloat(0, acc.total, 0)

infer_tax(resp, contract_address, act) ==
    LET out == InferTaxBody(resp, contract_address, act)
    IN  IF out.kind = "raise" /\ IsRequestException(out.exc)
        THEN TaxStr("HTTP request failed")
        ELSE out

-----------------------------------------------------------------------------
(* WalletAnalyzer.get_token_holders *)

\* holder_data[k] of the defaultdict: a missing key reads as the default entry
Entry(hd, k) ==
    IF k \in DOMAIN hd THEN hd[k] ELSE [balance |-> 0, incoming |-> 0, outgoing |-> 0]

Put(hd, k, e) == [x \in DOMAIN hd \cup {k} |-> IF x = k THEN e ELSE hd[x]]

Credit(hd, to_address, value) ==
    LET e == Entry(hd, to_address)
    IN  Put(hd, to_address,
            [e EXCEPT !.balance = e.balance + value, !.incoming = e.incoming + 1])

Debit(hd, from_address, value) ==
    LET e == Entry(hd, from_address)
    IN  Put(hd, from_address,
            [e EXCEPT !.balance = e.balance - value, !.outgoing = e.outgoing + 1])

\* FoldTx with both entries computed from the mapping as it was before the
\* record: the credit of a self-transfer is overwritten by its debit.
FoldTx_stale(acc, tx) ==
    IF acc.exc # "none" THEN acc
    ELSE IF StrExc(tx, "to") # "none" THEN [acc EXCEPT !.exc = "KeyError"]
    ELSE IF StrExc(tx, "from") # "none" THEN [acc EXCEPT !.exc = "KeyError"]
    ELSE IF IntExc(tx, "value") # "none" THEN [acc EXCEPT !.exc = IntExc(tx, "value")]
    ELSE LET credited == Credit(acc.hd, Lower(tx.to), tx.value)
             debited == Debit(acc.hd, Lower(tx.from), tx.value)
         IN  [acc EXCEPT !.hd = Put(credited, Lower(tx.from),
                                    debited[Lower(tx.from)])]

\* One iteration of the loop over a page: acc is [exc, hd].
FoldTx(acc, tx) ==
    IF acc.exc # "none" THEN acc
    ELSE IF StrExc(tx, "to") # "none" THEN [acc EXCEPT !.exc = "KeyError"]
    ELSE IF StrExc(tx, "from") # "none" THEN [acc EXCEPT !.exc = "KeyError"]
    ELSE IF IntExc(tx, "value") # "none" THEN [acc EXCEPT !.exc = IntExc(tx, "value")]
    ELSE [acc EXCEPT !.hd = Debit(Credit(acc.hd, Lower(tx.to), tx.value),
                                  Lower(tx.from), tx.value)]

\* What one pass of the while loop does with the page's response, up to the
\* for loop: "break" (with failed = the fetch raised), "raise" or "fold".
HolderPage(resp) ==
    IF resp.raise # "none" THEN
        [ctl |-> "break", failed |-> TRUE, exc |-> "none"]
    ELSE IF resp.status_code # 200 THEN
        [ctl |-> "break", failed |-> TRUE, exc |-> "none"]
    ELSE IF resp.decode # "none" THEN
        [ctl |-> "raise", failed |-> FALSE, exc |-> resp.decode]
    ELSE IF resp.status # "1" \/ ~resp.has_result \/ resp.result = <<>> THEN
        [ctl |-> "break", failed |-> FALSE, exc |-> "none"]
    ELSE [ctl |-> "fold", failed |-> FALSE, exc |-> "none"]

\* the return expression: addresses with zero (or negative) balance removed
Prune(hd) == [k \in {x \in DOMAIN hd : hd[x].balance > 0} |-> hd[k]]

-----------------------------------------------------------------------------
(* WalletAnalyzer.detect_suspicious_wallets and analyze_holders *)

RECURSIVE SumBalance(_, _)
SumBalance(hd, keys) ==
    IF keys = {} THEN 0
    ELSE LET k == CHOOSE x \in keys : TRUE
         IN  hd[k].balance + SumBalance(hd, keys \ {k})

small_wallet_fraction == Rat(1, 1000)

high_balance_fraction == Rat(5, 100)

\* an integer balance against total_supply * fraction
AboveShare(balance, total_supply, fraction) ==
    balance * fraction.den > total_supply * fraction.num

\* detect_suspicious_wallets with the accumulation rule written as incoming >= 5
detect_suspicious_wallets_from5(holders_data, total_supply) ==
    {a \in DOMAIN holders_data :
        \/ AboveShare(holders_data[a].balance, total_supply, high_balance_fraction)
        \/ /\ holders_data[a].incoming >= 5
           /\ holders_data[a].outgoing = 0
           /\ AboveShare(holders_data[a].balance, total_supply, small_wallet_fraction)}

detect_suspicious_wallets(holders_data, total_supply) ==
    {a \in DOMAIN holders_data :
        \/ AboveShare(holders_data[a].balance, total_supply, high_balance_fraction)
        \/ /\ holders_data[a].incoming > 5
           /\ holders_data[a].outgoing = 0
           /\ AboveShare(holders_data[a].balance, total_supply, small_wallet_fraction)}

suspicious_threshold == Rat(15, 100)

low_holder_threshold == 100

high_concentration_threshold == Rat(9, 10)

\* a float quotient against a float literal
FloatGt(q, lit) == q.num * lit.den > lit.num * q.den

is_whitelisted(token_address) == token_address \in Whitelist

\* IsHoneypot with the holder-count rule written as <= instead of <
IsHoneypot_inclusive(token_address, holder_count, suspicious_ratio, concentration_score) ==
    IF is_whitelisted(token_address) THEN FALSE
    ELSE IF \/ holder_count <= low_holder_threshold
            \/ FloatGt(suspicious_ratio, suspicious_threshold)
            \/ FloatGt(concentration_score, high_concentration_threshold)
         THEN TRUE
    ELSE FALSE

\* the honeypot-specific flags (the if / elif / else of analyze_holders)
IsHoneypot(token_address, holder_count, suspicious_ratio, concentration_score) ==
    IF is_whitelisted(token_address) THEN FALSE
    ELSE IF \/ holder_count < low_holder_threshold
            \/ FloatGt(suspicious_ratio, suspicious_threshold)
            \/ FloatGt(concentration_score, high_concentration_threshold)
         THEN TRUE
    ELSE FALSE

\* SuspiciousRatio without the "if len(holders_data) > 0" guard
SuspiciousRatio_unguarded(n_suspicious, n_holders) == Div(n_suspicious, n_holders)

SuspiciousRatio(n_suspicious, n_holders) ==
    IF n_holders > 0 THEN Div(n_suspicious, n_holders) ELSE Zero

ConcentrationScore(suspicious_balance, total_supply) ==
    IF total_supply > 0 THEN Div(suspicious_balance, total_supply) ELSE Zero

\* the locals of analyze_holders once get_token_holders has returned
HolderReport(holders_data) ==
    LET total_supply == SumBalance(holders_data, DOMAIN holders_data)
        suspicious_wallets == detect_suspicious_wallets(holders_data, total_supply)
    IN  [returned |-> TRUE,
         holders_data |-> holders_data,
         total_supply |-> total_supply,
         suspicious_wallets |-> suspicious_wallets,
         holder_count |-> Cardinality(DOMAIN holders_data),
         siphoned |-> Cardinality(suspicious_wallets),
         suspicious_ratio |->
             SuspiciousRatio(Cardinality(suspicious_wallets),
                             Cardinality(DOMAIN holders_data)),
         concentration_score |->
             ConcentrationScore(SumBalance(holders_data, suspicious_wallets),
                                total_supply)]

NoReport ==
    [returned |-> FALSE, holders_data |-> EmptyMap, total_supply |-> 0,
     suspicious_wallets |-> {}, holder_count |-> 0, siphoned |-> 0,
     suspicious_ratio |-> Zero, concentration_score |-> Zero]

\* results of a call: a returned dict, or an exception leaving the call
Returned(d) == [kind |-> "return", dict |-> d, exc |-> "none"]

Raised(e) == [kind |-> "raise", dict |-> EmptyMap, exc |-> e]

NotCalled == [kind |-> "none", dict |-> EmptyMap, exc |-> "none"]

\* the except clauses of analyze_holders
HoldersExcept(e) ==
    IF IsRequestException(e)
    THEN Returned([error |-> TRUE, message |-> "HTTP request failed"])
    ELSE IF IsKeyError(e)
    THEN Returned([error |-> TRUE, message |-> "Key error in holder analysis"])
    ELSE Raised(e)

\* analyze_holders from the return of get_token_holders on
HoldersVerdict(token_address, rep) ==
    IF rep.suspicious_ratio.den = 0 \/ rep.concentration_score.den = 0
    THEN HoldersExcept("ZeroDivisionError")
    ELSE Returned(
           [holders_analyzed |-> rep.holder_count,
            siphoned_wallets |-> rep.siphoned,
            is_honeypot |-> IsHoneypot(token_address, rep.holder_count,
                                       rep.suspicious_ratio,
                                       rep.concentration_score)])

-----------------------------------------------------------------------------
(* EtherscanAPI *)

ParsedAbi == [abi |-> "json"]

NotVerifiedDict ==
    [error |-> TRUE, message |-> "Contract source code not verified for address"]

get_contract_abi(resp) ==
    IF resp.raise # "none" THEN
        IF IsProxyError(resp.raise) THEN Returned(NotVerifiedDict)
        ELSE Raised(resp.raise)
    ELSE IF resp.status_code # 200 THEN Returned(NotVerifiedDict)
    ELSE IF resp.decode # "none" THEN Raised(resp.decode)
    ELSE IF resp.status = "absent" THEN Raised("KeyError")
    ELSE IF resp.status # "1" THEN Returned(NotVerifiedDict)
    ELSE IF ~resp.has_result THEN Raised("KeyError")
    ELSE Returned(ParsedAbi)

\* [kind, value, exc]: True unless get_contract_abi raises
\* ContractNotVerifiedError; any other exception leaves the call
is_contract_verified(resp) ==
    LET out == get_contract_abi(resp)
    IN  IF out.kind = "raise"
        THEN IF out.exc = "ContractNotVerifiedError"
             THEN [kind |-> "return", value |-> FALSE, exc |-> "none"]
             ELSE [kind |-> "raise", value |-> FALSE, exc |-> out.exc]
        ELSE [kind |-> "return", value |-> TRUE, exc |-> "none"]

-----------------------------------------------------------------------------
(* ContractsAnalyzer.calculate_gas_metrics and analyze_contract *)

\* One iteration of the loop over a page's transactions:
\* acc is [exc, stop, total_gas, total_buy_gas, total_sell_gas, gas_count].
GasTx(acc, tx, contract_address) ==
    IF acc.exc # "none" THEN acc
    ELSE IF IntExc(tx, "value") # "none" THEN [acc EXCEPT !.exc = IntExc(tx, "value")]
    ELSE IF tx.value <= 0 THEN acc
    ELSE IF IntExc(tx, "gasUsed") # "none" THEN [acc EXCEPT !.exc = IntExc(tx, "gasUsed")]
    ELSE LET own == /\ "contractAddress" \notin tx.missing
                    /\ Lower(tx.contractAddress) = Lower(contract_address)
         IN  IF own /\ StrExc(tx, "from") # "none" THEN [acc EXCEPT !.exc = "KeyError"]
             ELSE IF own /\ StrExc(tx, "to") # "none" THEN [acc EXCEPT !.exc = "KeyError"]
             ELSE [acc EXCEPT
                     !.total_gas = acc.total_gas + tx.gasUsed,
                     !.gas_count = acc.gas_count + 1,
                     !.total_buy_gas = IF own THEN acc.total_buy_gas + tx.gasUsed
                                       ELSE acc.total_buy_gas,
                     !.total_sell_gas = IF own THEN acc.total_sell_gas + tx.gasUsed
                                        ELSE acc.total_sell_gas]

RECURSIVE GasTxs(_, _, _)
GasTxs(acc, txs, contract_address) ==
    IF txs = <<>> THEN acc
    ELSE GasTxs(GasTx(acc, Head(txs), contract_address), Tail(txs), contract_address)

\* One iteration of "for page in range(1, 4)"
GasPage(acc, resp, contract_address) ==
    IF acc.exc # "none" \/ acc.stop THEN acc
    ELSE IF resp.raise # "none" THEN [acc EXCEPT !.exc = resp.raise]
    ELSE IF resp.status_code # 200 THEN [acc EXCEPT !.stop = TRUE]
    ELSE IF resp.decode # "none" THEN [acc EXCEPT !.exc = resp.decode]
    ELSE IF resp.status = "absent" THEN [acc EXCEPT !.exc = "KeyError"]
    ELSE IF resp.status # "1" THEN [acc EXCEPT !.stop = TRUE]
    ELSE IF ~resp.has_result THEN [acc EXCEPT !.exc = "KeyError"]
    ELSE GasTxs(acc, resp.result, contract_address)

GasPageCount == 3

RECURSIVE GasPages(_, _, _, _)
GasPages(acc, resps, p, contract_address) ==
    IF p > GasPageCount THEN acc
    ELSE GasPages(GasPage(acc, resps[p], contract_address), resps, p + 1,
                  contract_address)

calculate_gas_metrics(resps, contract_address) ==
    LET acc == GasPages([exc |-> "none", stop |-> FALSE, total_gas |-> 0,
                         total_buy_gas |-> 0, total_sell_gas |-> 0, gas_count |-> 0],
                        resps, 1, contract_address)
    IN  IF acc.exc # "none" THEN
            IF IsRequestException(acc.exc)
            THEN Returned([error |-> TRUE, message |-> "HTTP request failed"])
            ELSE Raised(acc.exc)
        ELSE Returned([average_gas |-> IF acc.gas_count > 0
                                       THEN Div(acc.total_gas, acc.gas_count)
                                       ELSE Zero,
                       buy_gas |-> acc.total_buy_gas,
                       sell_gas |-> acc.total_sell_gas])

\* the except clauses of analyze_contract
ContractExcept(e) ==
    IF IsRequestException(e)
    THEN Returned([error |-> TRUE, message |-> "HTTP request failed"])
    ELSE IF IsKeyError(e)
    THEN Returned([error |-> TRUE, message |-> "Key error in contract analysis"])
    ELSE Raised(e)

\* the return statement of analyze_contract; a gas_metrics dict without the
\* key "average_gas" raises KeyError there
ContractReturn(tx3, gas_metrics, limits_detected) ==
    IF "average_gas" \notin DOMAIN gas_metrics THEN ContractExcept("KeyError")
    ELSE Returned([buy_tax |-> tx3.buy, sell_tax |-> tx3.sell,
                   transfer_tax |-> tx3.transfer,
                   average_gas |-> gas_metrics.average_gas,
                   buy_gas |-> gas_metrics.buy_gas,
                   sell_gas |-> gas_metrics.sell_gas,
                   limits_detected |-> limits_detected])

-----------------------------------------------------------------------------
(* HoneypotChecker.analyze_address *)

ReturnNone == [kind |-> "return_none", dict |-> EmptyMap, exc |-> "none"]

\* the except clause of analyze_address
AddressExcept(e) == IF IsValueError(e) THEN ReturnNone ELSE Raised(e)

\* the dict literal returned by analyze_address: later entries override
Verdict(addr, verified, contract, wallet) ==
    Returned(wallet @@ contract @@
             [token_address |-> addr,
              source_code_status |-> IF verified THEN "open_source" ELSE "not_verified"])

-----------------------------------------------------------------------------
(* The state machine *)

NoResp == RespJson("absent", FALSE, <<>>)

NoTax == [kind |-> "none", hundredths |-> 0, text |-> "", exc |-> "none",
          total_tax |-> Zero, tax_count |-> 0]

\* the value infer_tax hands back, without the loop's locals
TaxValue(out) == [kind |-> out.kind, hundredths |-> out.hundredths, text |-> out.text]

NoTaxes == [buy |-> TaxValue(NoTax), sell |-> TaxValue(NoTax),
            transfer |-> TaxValue(NoTax)]

Blank(p, a, act, rep) ==
    /\ pc = p
    /\ requested = FALSE
    /\ address = a
    /\ abi_lookup = NoResp
    /\ is_verified = FALSE
    /\ abi = EmptyMap
    /\ action = act
    /\ tax_resp = NoResp
    /\ tax_out = NoTax
    /\ taxes = NoTaxes
    /\ contract_analysis = NotCalled
    /\ page = 1
    /\ holder_data = EmptyMap
    /\ pending = 0
    /\ fetch_failed = FALSE
    /\ report = rep
    /\ wallet_analysis = NotCalled
    /\ result = NotCalled

\* Validate without the guard: every address goes on to the lookups
Validate_unchecked ==
    /\ pc = "start"
    /\ pc' = "is_verified"
    /\ UNCHANGED <<requested, address, abi_lookup, is_verified, abi, action, tax_resp,
                   tax_out, taxes, contract_analysis, page, holder_data, pending,
                   fetch_failed, report, wallet_analysis, result>>

\* analyze_address: the validate_address guard
Validate ==
    /\ pc = "start"
    /\ IF validate_address(address)
       THEN pc' = "is_verified" /\ UNCHANGED result
       ELSE pc' = "done" /\ result' = Returned([error |-> "Invalid Ethereum address"])
    /\ UNCHANGED <<requested, address, abi_lookup, is_verified, abi, action, tax_resp, tax_out,
                   taxes, contract_analysis, page, holder_data, pending, fetch_failed,
                   report, wallet_analysis>>

\* analyze_from_outer_scope: is_verified = self.etherscan.is_contract_verified(address)
IsVerifiedStep(Resps) ==
    /\ pc = "is_verified"
    /\ \E resp \in Resps :
         LET out == is_contract_verified(resp)
         IN  /\ abi_lookup' = resp
             /\ IF out.kind = "raise"
                THEN /\ pc' = "done"
                     /\ result' = AddressExcept(out.exc)
                     /\ UNCHANGED is_verified
                ELSE /\ pc' = "get_abi"
                     /\ is_verified' = out.value
                     /\ UNCHANGED result
    /\ requested' = TRUE
    /\ UNCHANGED <<address, abi, action, tax_resp, tax_out, taxes, contract_analysis,
                   page, holder_data, pending, fetch_failed, report, wallet_analysis>>

\* analyze_from_outer_scope: abi = self.etherscan.get_contract_abi(address)
GetAbiStep(Resps) ==
    /\ pc = "get_abi"
    /\ \E resp \in Resps :
         LET out == get_contract_abi(resp)
         IN  IF out.kind = "raise"
             THEN /\ pc' = "done"
                  /\ result' = AddressExcept(out.exc)
                  /\ UNCHANGED <<abi, action>>
             ELSE /\ pc' = "infer_tax"
                  /\ abi' = out.dict
                  /\ action' = "buy"
                  /\ UNCHANGED result
    /\ requested' = TRUE
    /\ UNCHANGED <<address, abi_lookup, is_verified, tax_resp, tax_out, taxes,
                   contract_analysis, page, holder_data, pending, fetch_failed, report,
                   wallet_analysis>>

\* one call of infer_tax(contract_address, action)
InferTaxCall(Resps) ==
    /\ pc = "infer_tax"
    /\ \E resp \in Resps :
         /\ tax_resp' = resp
         /\ tax_out' = infer_tax(resp, address, action)
    /\ pc' = "tax_returned"
    /\ requested' = TRUE
    /\ UNCHANGED <<address, abi_lookup, is_verified, abi, action, taxes,
                   contract_analysis, page, holder_data, pending, fetch_failed, report,
                   wallet_analysis, result>>

NextAction(act) == IF act = "buy" THEN "sell" ELSE "transfer"

\* analyze_contract, between two infer_tax calls: the value is bound to
\* buy_tax, sell_tax or transfer_tax, or the exception reaches the except
\* clauses of analyze_contract and then of analyze_address
AfterTax ==
    /\ pc = "tax_returned"
    /\ IF tax_out.kind = "raise"
       THEN LET c == ContractExcept(tax_out.exc)
            IN  IF c.kind = "raise"
                THEN /\ pc' = "done"
                     /\ result' = AddressExcept(c.exc)
                     /\ UNCHANGED <<contract_analysis, taxes, action>>
                ELSE /\ pc' = "holders_loop"
                     /\ contract_analysis' = c
                     /\ UNCHANGED <<result, taxes, action>>
       ELSE /\ taxes' = [taxes EXCEPT ![action] = TaxValue(tax_out)]
            /\ IF action = "transfer"
               THEN pc' = "gas_metrics" /\ UNCHANGED action
               ELSE pc' = "infer_tax" /\ action' = NextAction(action)
            /\ UNCHANGED <<result, contract_analysis>>
    /\ tax_resp' = NoResp
    /\ tax_out' = NoTax
    /\ UNCHANGED <<requested, address, abi_lookup, is_verified, abi, page, holder_data,
                   pending, fetch_failed, report, wallet_analysis>>

\* analyze_contract: calculate_gas_metrics, detect_limits and the return.
\* limits is what the chain node answers to the maxTxAmount probe; the web3
\* calls (building the contract object, the probe) are taken to return.
GasAndLimits(Resps) ==
    /\ pc = "gas_metrics"
    /\ \E resps \in [1..GasPageCount -> Resps], limits \in BOOLEAN :
         LET gm == calculate_gas_metrics(resps, address)
             c == IF gm.kind = "raise" THEN ContractExcept(gm.exc)
                  ELSE ContractReturn(taxes, gm.dict, limits)
         IN  IF c.kind = "raise"
             THEN /\ pc' = "done"
                  /\ result' = AddressExcept(c.exc)
                  /\ UNCHANGED contract_analysis
             ELSE /\ pc' = "holders_loop"
                  /\ contract_analysis' = c
                  /\ UNCHANGED result
    /\ requested' = TRUE
    /\ UNCHANGED <<address, abi_lookup, is_verified, abi, action, tax_resp, tax_out,
                   taxes, page, holder_data, pending, fetch_failed, report, wallet_analysis>>

\* get_token_holders: one pass of the while loop, up to the for loop.  The
\* page counter has no bound in the code; the model stops following the loop
\* after MaxPages passes.  The records of a page are drawn one by one as the
\* for loop reaches them (FoldRecord).
HolderFetch(Resps) ==
    /\ pc = "holders_loop"
    /\ page <= MaxPages
    /\ \E resp \in Resps :
         LET step == HolderPage(resp)
         IN  /\ fetch_failed' = step.failed
             /\ IF step.ctl = "fold"
                THEN /\ pc' = "holders_fold"
                     /\ pending' = Len(resp.result)
                     /\ UNCHANGED wallet_analysis
                ELSE IF step.ctl = "break"
                THEN /\ pc' = "holders_fetched"
                     /\ UNCHANGED <<pending, wallet_analysis>>
                ELSE /\ pc' = "holders_returned"
                     /\ wallet_analysis' = HoldersExcept(step.exc)
                     /\ UNCHANGED pending
    /\ requested' = TRUE
    /\ UNCHANGED <<address, abi_lookup, is_verified, abi, action, tax_resp, tax_out,
                   taxes, contract_analysis, page, holder_data, report, result>>

\* get_token_holders: one pass of "for tx in transactions", and page += 1
\* after the last record of the page
FoldRecord(Txs) ==
    /\ pc = "holders_fold"
    /\ \E tx \in Txs :
         LET acc == FoldTx([exc |-> "none", hd |-> holder_data], tx)
         IN  IF acc.exc # "none"
             THEN /\ pc' = "holders_returned"
                  /\ wallet_analysis' = HoldersExcept(acc.exc)
                  /\ UNCHANGED <<holder_data, pending, page>>
             ELSE /\ holder_data' = acc.hd
                  /\ pending' = pending - 1
                  /\ IF pending = 1
                     THEN pc' = "holders_loop" /\ page' = page + 1
                     ELSE pc' = "holders_fold" /\ UNCHANGED page
                  /\ UNCHANGED wallet_analysis
    /\ UNCHANGED <<requested, address, abi_lookup, is_verified, abi, action, tax_resp, tax_out,
                   taxes, contract_analysis, fetch_failed, report, result>>

\* analyze_holders: from the return of get_token_holders to the debug log
ComputeReport ==
    /\ pc = "holders_fetched"
    /\ report' = HolderReport(Prune(holder_data))
    /\ pc' = "verdict"
    /\ UNCHANGED <<requested, address, abi_lookup, is_verified, abi, action, tax_resp, tax_out,
                   taxes, contract_analysis, page, holder_data, pending, fetch_failed,
                   wallet_analysis, result>>

\* analyze_holders: the honeypot-specific flags and the return
HoldersVerdictStep ==
    /\ pc = "verdict"
    /\ wallet_analysis' = HoldersVerdict(address, report)
    /\ pc' = "holders_returned"
    /\ UNCHANGED <<requested, address, abi_lookup, is_verified, abi, action, tax_resp, tax_out,
                   taxes, contract_analysis, page, holder_data, pending, fetch_failed,
                   report, result>>

\* analyze_address: the returned dict, or the except clause
Combine ==
    /\ pc = "holders_returned"
    /\ result' = IF wallet_analysis.kind = "raise"
                 THEN AddressExcept(wallet_analysis.exc)
                 ELSE Verdict(address, is_verified, contract_analysis.dict,
                              wallet_analysis.dict)
    /\ pc' = "done"
    /\ UNCHANGED <<requested, address, abi_lookup, is_verified, abi, action, tax_resp, tax_out,
                   taxes, contract_analysis, page, holder_data, pending, fetch_failed,
                   report, wallet_analysis>>

-----------------------------------------------------------------------------
(* Inputs: token addresses and what the endpoints answer *)

Tok == Addr("tok", "lower")

WalletA == Addr("a", "lower")

WalletB == Addr("b", "lower")

Lacking(tx, f) == [tx EXCEPT !.missing = {f}]

Garbled(tx, f) == [tx EXCEPT !.junk = {f}]

\* requests issued by analyze_address as a whole
TokenInputs == {USDT, Lower(USDT), Addr("tok", "checksum"), Addr("tok", "malformed")}

AbiResps ==
    {RespJson("1", TRUE, <<>>), RespJson("0", TRUE, <<>>), RespHttp(500),
     RespRaise("ProxyError"), RespRaise("ConnectionError"),
     RespUndecodable("JSONDecodeError")}

PipelineTaxResps ==
    {RespRaise("Timeout"),
     RespJson("1", TRUE, <<Tx(WalletA, WalletB, 2, 1, 1, Tok)>>),
     RespJson("1", TRUE, <<Tx(WalletA, WalletB, 0, 1, 1, Tok)>>),
     RespJson("1", TRUE, <<Lacking(Tx(WalletA, WalletB, 2, 1, 1, Tok), "gasPrice")>>),
     RespJson("1", TRUE, <<Garbled(Tx(WalletA, WalletB, 2, 1, 1, Tok), "value")>>)}

PipelineGasResps ==
    {RespRaise("Timeout"), RespHttp(500),
     RespJson("1", TRUE, <<Tx(WalletA, WalletB, 2, 1, 1, Tok)>>)}

\* a success page of n records, not yet read
PageOf(n) == RespJson("1", TRUE, [i \in 1..n |-> "record"])

PipelineHolderResps == {RespRaise("Timeout"), RespJson("1", TRUE, <<>>), PageOf(1)}

PipelineHolderTxs ==
    {Tx(WalletA, WalletB, 1, 1, 1, Tok),
     Lacking(Tx(WalletA, WalletB, 1, 1, 1, Tok), "to"),
     Garbled(Tx(WalletA, WalletB, 1, 1, 1, Tok), "value")}

\* infer_tax on its own
TaxTokens == {Tok, Addr("tok", "checksum")}

TaxActions == {"buy", "sell", "transfer"}

TaxEndpoints == {Tok, WalletA}

TaxTxs ==
    {Tx(f, t, v, gp, gu, Tok) :
        f \in TaxEndpoints, t \in TaxEndpoints, v \in 0..MaxValue,
        gp \in 1..MaxGasPrice, gu \in 0..MaxGasUsed}

DefectiveTaxTxs ==
    {Lacking(Tx(Tok, WalletA, 1, 1, 1, Tok), "gasPrice"),
     Lacking(Tx(Tok, WalletA, 1, 1, 1, Tok), "to"),
     Garbled(Tx(Tok, WalletA, 1, 1, 1, Tok), "value")}

TaxResps ==
    {RespRaise(e) : e \in {"ConnectionError", "Timeout"}}
    \cup {RespHttp(500)}
    \cup {RespUndecodable(e) : e \in JsonExcs}
    \cup {RespJson("absent", FALSE, <<>>), RespJson("0", TRUE, <<>>),
          RespJson("1", FALSE, <<>>)}
    \cup {RespJson("1", TRUE, txs) :
            txs \in SeqsUpTo(TaxTxs \cup DefectiveTaxTxs, MaxTaxLen)}

\* analyze_holders on its own
HolderTokens == {USDT, Lower(USDT), Addr("usdt", "upper"), Tok}

HolderEndpoints == {WalletA, Addr("a", "checksum"), WalletB}

DefectiveHolderTxs ==
    {Lacking(Tx(WalletA, WalletB, 1, 1, 1, Tok), "to"),
     Garbled(Tx(WalletA, WalletB, 1, 1, 1, Tok), "value")}

HolderTxs ==
    {Tx(f, t, v, 1, 1, Tok) :
        f \in HolderEndpoints, t \in HolderEndpoints, v \in 1..MaxValue}
    \cup DefectiveHolderTxs

HolderResps ==
    {RespRaise(e) : e \in {"ConnectionError", "Timeout"}}
    \cup {RespHttp(500)}
    \cup {RespUndecodable(e) : e \in JsonExcs}
    \cup {RespJson("0", TRUE, <<>>)}
    \cup {PageOf(n) : n \in 0..MaxPageLen}

\* the honeypot-specific flags on their own: reports of holder sets too
\* large to fold one transfer at a time.  A drawn report gives the counts
\* and sums a pruned holder mapping can have: every holder has a balance of
\* at least 1, every suspicious one more than 0.1% of the supply, every
\* other one at most 5% of it.
HolderCounts == {0, 1, 2, 50, 99, 100, 101, 500}

SiphonedCounts(n) ==
    {k \in {0, 1, n \div 20, (3 * n) \div 20, (3 * n) \div 20 + 1, n \div 5, n} :
        k <= n}

SupplyFor(n) == {n, 10 * n, 1000 * n}

SuspiciousBalances(total) ==
    {(total * j) \div 10 : j \in 0..10} \cup {(9 * total) \div 10 + 1}

DrawnReport(n, k, total, sb) ==
    [returned |-> TRUE, holders_data |-> EmptyMap, total_supply |-> total,
     suspicious_wallets |-> {}, holder_count |-> n, siphoned |-> k,
     suspicious_ratio |-> SuspiciousRatio(k, n),
     concentration_score |-> ConcentrationScore(sb, total)]

DrawnReports ==
    {DrawnReport(q[1], q[2], q[3], q[4]) :
        q \in {r \in UNION {UNION {UNION {{<<n, k, total, sb>> :
                        sb \in SuspiciousBalances(total)} :
                        total \in SupplyFor(n)} :
                        k \in SiphonedCounts(n)} :
                        n \in HolderCounts} :
                 /\ r[4] <= r[3]
                 /\ r[2] <= r[4]
                 /\ r[3] - r[4] >= r[1] - r[2]
                 /\ (r[2] = 0) = (r[4] = 0)
                 /\ r[2] > 0 => 1000 * r[4] > r[2] * r[3]
                 /\ 20 * (r[3] - r[4]) <= (r[1] - r[2]) * r[3]}}

\* detect_suspicious_wallets on its own: holder mappings as get_token_holders
\* has them after a long history.  Up to three holders with a positive
\* balance, who receive from and send to one source account; the source's
\* entry balances theirs, so that the mapping is one a fold can produce.
DetectHolders == {Addr("h1", "lower"), Addr("h2", "lower"), Addr("h3", "lower")}

Source == Addr("src", "lower")

DetectBalances == {1, 5, 95, 999}

DetectIncoming == {1, 5, 6}

DetectOutgoing == {0, 1}

DetectEntries ==
    [balance : DetectBalances, incoming : DetectIncoming, outgoing : DetectOutgoing]

RECURSIVE SumField(_, _, _)
SumField(hd, keys, f) ==
    IF keys = {} THEN 0
    ELSE LET k == CHOOSE x \in keys : TRUE
         IN  hd[k][f] + SumField(hd, keys \ {k}, f)

WithSource(hd) ==
    Put(hd, Source,
        [balance |-> 0 - SumField(hd, DOMAIN hd, "balance"),
         incoming |-> SumField(hd, DOMAIN hd, "outgoing"),
         outgoing |-> SumField(hd, DOMAIN hd, "incoming")])

DrawnHolderMaps ==
    {WithSource(hd) : hd \in UNION {[H -> DetectEntries] : H \in (SUBSET DetectHolders) \ {{}}}}

-----------------------------------------------------------------------------
(* Specifications *)

\* one request to analyze_address
Init == \E a \in TokenInputs : Blank("start", a, "none", NoReport)

Next ==
    \/ Validate
    \/ IsVerifiedStep(AbiResps)
    \/ GetAbiStep(AbiResps)
    \/ InferTaxCall(PipelineTaxResps)
    \/ AfterTax
    \/ GasAndLimits(PipelineGasResps)
    \/ HolderFetch(PipelineHolderResps)
    \/ FoldRecord(PipelineHolderTxs)
    \/ ComputeReport
    \/ HoldersVerdictStep
    \/ Combine

Spec == Init /\ [][Next]_vars

\* one call of infer_tax
InitTax == \E a \in TaxTokens, act \in TaxActions : Blank("infer_tax", a, act, NoReport)

NextTax == InferTaxCall(TaxResps)

SpecTax == InitTax /\ [][NextTax]_vars

\* one call of analyze_holders
InitHolders == \E a \in HolderTokens : Blank("holders_loop", a, "none", NoReport)

NextHolders ==
    \/ HolderFetch(HolderResps)
    \/ FoldRecord(HolderTxs)
    \/ ComputeReport
    \/ HoldersVerdictStep

SpecHolders == InitHolders /\ [][NextHolders]_vars

\* detect_suspicious_wallets within analyze_holders, on drawn holder mappings
InitDetect ==
    /\ \E hd \in DrawnHolderMaps : holder_data = hd
    /\ pc = "holders_fetched"
    /\ requested = TRUE
    /\ address = Tok
    /\ abi_lookup = NoResp
    /\ is_verified = FALSE
    /\ abi = EmptyMap
    /\ action = "none"
    /\ tax_resp = NoResp
    /\ tax_out = NoTax
    /\ taxes = NoTaxes
    /\ contract_analysis = NotCalled
    /\ page = 1
    /\ pending = 0
    /\ fetch_failed = FALSE
    /\ report = NoReport
    /\ wallet_analysis = NotCalled
    /\ result = NotCalled

NextDetect ==
    \/ ComputeReport
    \/ HoldersVerdictStep

SpecDetect == InitDetect /\ [][NextDetect]_vars

\* the honeypot-specific flags of analyze_holders, on drawn reports
InitVerdict ==
    \E a \in HolderTokens \cup {USDC}, rep \in DrawnReports : Blank("verdict", a, "none", rep)

NextVerdict == HoldersVerdictStep

SpecVerdict == InitVerdict /\ [][NextVerdict]_vars

-----------------------------------------------------------------------------
(* Claims *)

AllowListed == {USDT, USDC}

\* C1: the verdict's isHoneypot follows the ordered policy: false when the
\* token address is on the allow-list (as the address is spelled there);
\* otherwise true exactly when holderCount < 100, or suspiciousRatio > 0.15,
\* or concentrationScore > 0.9; so 50 holders, ratio 0.2, score 0.1 gives
\* true and 500 holders, ratio 0.05, score 0.3 gives false.
C1_VerdictPolicy ==
    (pc = "holders_returned" /\ report.returned) =>
        LET n == report.holder_count
            r == report.suspicious_ratio
            c == report.concentration_score
            off_list == address \notin AllowListed
        IN  /\ wallet_analysis.kind = "return"
            /\ wallet_analysis.dict.is_honeypot =
                 IF address \in AllowListed THEN FALSE
                 ELSE (n < 100 \/ 100 * r.num > 15 * r.den \/ 10 * c.num > 9 * c.den)
            /\ (off_list /\ n = 50 /\ 10 * r.num = 2 * r.den /\ 10 * c.num = c.den)
                   => wallet_analysis.dict.is_honeypot = TRUE
            /\ (off_list /\ n = 500 /\ 100 * r.num = 5 * r.den /\ 10 * c.num = 3 * c.den)
                   => wallet_analysis.dict.is_honeypot = FALSE

\* a token off the allow-list with 500 holders, ratio 0.05 and score 0.3 was
\* judged, and judged not to be a honeypot
C1_Witness ==
    /\ pc = "holders_returned"
    /\ address = Tok
    /\ report.holder_count = 500
    /\ 100 * report.suspicious_ratio.num = 5 * report.suspicious_ratio.den
    /\ 10 * report.concentration_score.num = 3 * report.concentration_score.den
    /\ wallet_analysis.dict.is_honeypot = FALSE

\* C2: for an allow-listed address in any letter case (lower, upper or
\* checksummed), analyze_holders returns is_honeypot false, whatever the
\* holder set.
C2_AllowListAnyCase ==
    (/\ pc = "holders_returned"
     /\ report.returned
     /\ ~fetch_failed
     /\ wallet_analysis.kind = "return"
     /\ Lower(address) \in {Lower(w) : w \in AllowListed})
        => wallet_analysis.dict.is_honeypot = FALSE

\* C3: the pagination loop of get_token_holders stops after at most a fixed
\* number of page fetches: once MaxPages pages have been fetched the loop is
\* no longer running.  (MaxPages is how far the model follows the loop; the
\* statement fails in the same way for every value of it.)
C3_PaginationBounded ==
    pc = "holders_loop" => page - 1 < MaxPages

\* C4: after a fetch failure at a page (here: a page after the first, so that
\* earlier pages were folded), analyze_holders does not return a holder count
\* and an is_honeypot decision.
C4_FailureMeansUnavailable ==
    (pc = "holders_returned" /\ fetch_failed /\ page > 1) =>
        ~(/\ wallet_analysis.kind = "return"
          /\ "holders_analyzed" \in DOMAIN wallet_analysis.dict
          /\ "is_honeypot" \in DOMAIN wallet_analysis.dict)

Fetched(resp) ==
    /\ resp.raise = "none"
    /\ resp.status_code = 200
    /\ resp.decode = "none"
    /\ resp.status = "1"
    /\ resp.has_result

WellFormed(tx) == tx.missing = {} /\ tx.junk = {}

\* C5: when every record of a fetched, non-empty transfer set has value 0,
\* and whenever no record of it qualifies for the action, infer_tax returns
\* an Unavailable marker (a str), never a number.
C5_NoSynthesizedPercent ==
    (pc = "tax_returned" /\ tax_resp.result # <<>>) =>
        /\ (/\ Fetched(tax_resp)
            /\ \A i \in 1..Len(tax_resp.result) :
                 WellFormed(tax_resp.result[i]) /\ tax_resp.result[i].value = 0)
               => tax_out.kind = "str"
        /\ tax_out.kind = "float" => tax_out.tax_count > 0

\* C6: before pruning, the balances of all accounts of the holder mapping
\* sum to 0, whatever records have been folded.
C6_Conservation ==
    SumBalance(holder_data, DOMAIN holder_data) = 0

\* two pages have been folded and every record so far was a self-transfer
\* (one account, credited and debited)
C6_Witness ==
    /\ pc = "holders_loop"
    /\ page >= 3
    /\ DOMAIN holder_data = {WalletA}
    /\ holder_data[WalletA].incoming >= 2
    /\ holder_data[WalletA].outgoing >= 2

\* C7: the holder analysis never divides by zero; when no account survives
\* pruning, analyze_holders returns its report with suspiciousRatio and
\* concentrationScore both 0.
C7_NoDivisionByZero ==
    (pc = "holders_returned" /\ report.returned) =>
        /\ report.suspicious_ratio.den # 0
        /\ report.concentration_score.den # 0
        /\ report.holder_count = 0 =>
             /\ wallet_analysis.kind = "return"
             /\ "is_honeypot" \in DOMAIN wallet_analysis.dict
             /\ report.total_supply = 0
             /\ report.suspicious_ratio.num = 0
             /\ report.concentration_score.num = 0

\* transfers were folded, no account survived pruning, and analyze_holders
\* returned its report
C7_Witness ==
    /\ pc = "holders_returned"
    /\ report.returned
    /\ DOMAIN holder_data # {}
    /\ report.holder_count = 0
    /\ wallet_analysis.kind = "return"

\* C8: source_code_status is open_source only when the ABI lookup returned
\* an ABI, and not_verified whenever it did not.
C8_StatusReflectsLookup ==
    (/\ pc = "done"
     /\ result.kind = "return"
     /\ "source_code_status" \in DOMAIN result.dict)
        => (result.dict.source_code_status = "open_source") = Fetched(abi_lookup)

VerdictKeys ==
    {"token_address", "source_code_status", "buy_tax", "sell_tax", "transfer_tax",
     "holders_analyzed", "siphoned_wallets", "is_honeypot"}

\* C9: for a valid address whose request reached the tax and holder
\* analyses, analyze_address returns a mapping with every verdict key and no
\* error entry, whatever the data endpoint answered.
C9_FailuresContained ==
    (pc = "done" /\ validate_address(address) /\ action # "none") =>
        /\ result.kind = "return"
        /\ VerdictKeys \subseteq DOMAIN result.dict
        /\ "error" \notin DOMAIN result.dict

\* C11: a malformed address is rejected before any network call: when
\* validate_address fails, no HTTP request is ever issued during the call,
\* and the call ends with the structured error and nothing else.
C11_RejectedBeforeNetwork ==
    ~validate_address(address) =>
        /\ ~requested
        /\ pc \in {"start", "done"}
        /\ pc = "done" =>
             /\ result.kind = "return"
             /\ DOMAIN result.dict = {"error"}
             /\ result.dict.error = "Invalid Ethereum address"

\* the call for a malformed address has ended, with the error returned
C11_Witness ==
    /\ pc = "done"
    /\ ~validate_address(address)
    /\ result.kind = "return"
    /\ "error" \in DOMAIN result.dict

\* the two suspicion predicates of the claim, on integers
Dominant(e, T) == 100 * e.balance > 5 * T

Accumulating(e, T) == e.incoming > 5 /\ e.outgoing = 0 /\ 1000 * e.balance > T

\* C12: with T the sum of the balances of the pruned holder set,
\* detect_suspicious_wallets flags a holder exactly when its balance exceeds
\* 0.05*T, or it has more than 5 incoming transfers, no outgoing one and a
\* balance above 0.001*T.
C12_SuspicionPredicates ==
    report.returned =>
        LET hd == report.holders_data
            T == report.total_supply
        IN  /\ T = SumField(hd, DOMAIN hd, "balance")
            /\ report.suspicious_wallets \subseteq DOMAIN hd
            /\ \A a \in DOMAIN hd :
                 (a \in report.suspicious_wallets)
                     = (Dominant(hd[a], T) \/ Accumulating(hd[a], T))

\* one report with a holder flagged for dominance only, a holder flagged for
\* accumulation only, and a holder that fails both and is not flagged
C12_Witness ==
    /\ report.returned
    /\ LET hd == report.holders_data
           T == report.total_supply
       IN  /\ \E a \in report.suspicious_wallets :
                 Dominant(hd[a], T) /\ ~Accumulating(hd[a], T)
           /\ \E a \in report.suspicious_wallets :
                 ~Dominant(hd[a], T) /\ Accumulating(hd[a], T)
           /\ \E a \in DOMAIN hd \ report.suspicious_wallets :
                 ~Dominant(hd[a], T) /\ ~Accumulating(hd[a], T)

\* the attribution rule of the claim: addresses compared without regard to case
Attributed(tx, token, act) ==
    CASE act = "buy" -> Lower(tx.to) # Lower(token)
      [] act = "sell" -> Lower(tx.from) # Lower(token)
      [] act = "transfer" -> Lower(tx.from) # Lower(token) /\ Lower(tx.to) # Lower(token)
      [] OTHER -> FALSE

Qualifies(tx, token, act) ==
    /\ tx.value > 0
    /\ tx.gasPrice * tx.gasUsed <= tx.value
    /\ Attributed(tx, token, act)

RECURSIVE QualifyingCount(_, _, _)
QualifyingCount(txs, token, act) ==
    IF txs = <<>> THEN 0
    ELSE (IF Qualifies(Head(txs), token, act) THEN 1 ELSE 0)
         + QualifyingCount(Tail(txs), token, act)

RECURSIVE QualifyingSum(_, _, _)
QualifyingSum(txs, token, act) ==
    IF txs = <<>> THEN Zero
    ELSE LET rest == QualifyingSum(Tail(txs), token, act)
             tx == Head(txs)
         IN  IF Qualifies(tx, token, act)
             THEN RatAdd(Rat(tx.gasPrice * tx.gasUsed, tx.value), rest)
             ELSE rest

\* C13: over a fetched set of well-formed records, the count and the sum
\* that infer_tax accumulates for an action are those of the records with
\* value > 0 and gasPrice*gasUsed <= value that the attribution rule
\* selects, the rule comparing addresses case-insensitively.
C13_CountedRecords ==
    (/\ pc = "tax_returned"
     /\ Fetched(tax_resp)
     /\ \A i \in 1..Len(tax_resp.result) : WellFormed(tax_resp.result[i]))
        => LET want == QualifyingSum(tax_resp.result, address, action)
           IN  /\ tax_out.kind = "float"
               /\ tax_out.tax_count = QualifyingCount(tax_resp.result, address, action)
               /\ tax_out.total_tax.num * want.den = want.num * tax_out.total_tax.den

\* C10: infer_tax raises no exception, and returns an Unavailable marker (a
\* str) whenever the fetch failed or the response was malformed.
C10_TaxNeverRaises ==
    pc = "tax_returned" =>
        /\ tax_out.kind # "raise"
        /\ (\/ ~Fetched(tax_resp)
            \/ \E i \in 1..Len(tax_resp.result) : ~WellFormed(tax_resp.result[i]))
               => tax_out.kind = "str"

====
